---- MODULE Spec2Model ----
(***************************************************************************)
(* Model of src/main.py: one FastAPI application object on which 42 path    *)
(* operations are registered by decorators, in source order, and the        *)
(* request pipeline that serves them (route matching in registration order, *)
(* decoding and validation of the declared parameters, handler call).       *)
(*                                                                          *)
(* Text is modelled as sequences of one-character strings, so that parsing  *)
(* (int, float, bool, enum), path splitting and greedy-path joining are     *)
(* computed and not assumed.  Floats are held as a whole number of tenths   *)
(* (10.5 is 105); every float literal of the source has one decimal digit.  *)
(* Values are tagged tuples <<tag, payload>>: "null", "int", "float",       *)
(* "str", "bool", "list", "obj", "pairs", "enum", "set", "dict".            *)
(***************************************************************************)
EXTENDS Integers, Sequences, FiniteSets, TLC

VARIABLES clients, fake_items_db

vars == <<clients, fake_items_db>>

(* ------------------------------ bounds --------------------------------- *)

\* Largest number of repeated values of one query parameter in a request.
MaxQValues == 2

(* ------------------------------ values --------------------------------- *)

Null == <<"null">>
IntV(n) == <<"int", n>>
FloatV(t) == <<"float", t>>
StrV(s) == <<"str", s>>
BoolV(b) == <<"bool", b>>
ListV(s) == <<"list", s>>
ObjV(f) == <<"obj", f>>
EnumV(m) == <<"enum", m>>
\* A JSON object whose keys are data, as <<key text, value>> pairs in order.
PairsV(kvs) == <<"pairs", kvs>>

Tag(v) == v[1]
Val(v) == v[2]

\* Python truthiness of a value (the `if q:` / `if item.tax:` tests).
Truthy(v) ==
  CASE Tag(v) = "null" -> FALSE
    [] Tag(v) = "int" -> Val(v) # 0
    [] Tag(v) = "float" -> Val(v) # 0
    [] Tag(v) = "str" -> Len(Val(v)) > 0
    [] Tag(v) = "bool" -> Val(v)
    [] Tag(v) = "list" -> Len(Val(v)) > 0
    [] OTHER -> TRUE

\* dict.update({k: v}) / {**d, k: v}: the new key wins.
Update(d, k, v) == (k :> v) @@ d

Has(d, k) == k \in DOMAIN d

EmptyDict == [k \in {} |-> Null]

(* ------------------------------- text ---------------------------------- *)

Digits == {"0", "1", "2", "3", "4", "5", "6", "7", "8", "9"}

DigitVal(c) ==
  CASE c = "0" -> 0 [] c = "1" -> 1 [] c = "2" -> 2 [] c = "3" -> 3
    [] c = "4" -> 4 [] c = "5" -> 5 [] c = "6" -> 6 [] c = "7" -> 7
    [] c = "8" -> 8 [] c = "9" -> 9

AllDigits(s) == Len(s) > 0 /\ \A i \in 1..Len(s) : s[i] \in Digits

RECURSIVE DigitsVal(_)
DigitsVal(s) ==
  IF Len(s) = 0 THEN 0
  ELSE DigitsVal(SubSeq(s, 1, Len(s) - 1)) * 10 + DigitVal(s[Len(s)])

Unsigned(s) == IF Len(s) > 0 /\ s[1] \in {"-", "+"} THEN Tail(s) ELSE s
Sign(s) == IF Len(s) > 0 /\ s[1] = "-" THEN -1 ELSE 1

\* Index of the first "." of s, 0 when there is none.
RECURSIVE DotAt(_, _)
DotAt(s, i) ==
  IF i > Len(s) THEN 0 ELSE IF s[i] = "." THEN i ELSE DotAt(s, i + 1)

\* str -> int as the validation layer parses an int parameter: an optional
\* sign and decimal digits.  <<>> is a parse failure, <<n>> the value.
ParseInt(s) ==
  IF AllDigits(Unsigned(s)) THEN <<Sign(s) * DigitsVal(Unsigned(s))>> ELSE <<>>

\* str -> float, in tenths: digits, optionally "." and one digit.
ParseFloat(s) ==
  LET u == Unsigned(s)
      d == DotAt(u, 1)
  IN IF d = 0
       THEN IF AllDigits(u) THEN <<Sign(s) * DigitsVal(u) * 10>> ELSE <<>>
       ELSE IF /\ d = Len(u) - 1
               /\ AllDigits(SubSeq(u, 1, d - 1))
               /\ u[Len(u)] \in Digits
            THEN <<Sign(s) * (DigitsVal(SubSeq(u, 1, d - 1)) * 10 + DigitVal(u[Len(u)]))>>
            ELSE <<>>

Lower(c) ==
  CASE c = "T" -> "t" [] c = "R" -> "r" [] c = "U" -> "u" [] c = "E" -> "e"
    [] c = "F" -> "f" [] c = "A" -> "a" [] c = "L" -> "l" [] c = "S" -> "s"
    [] c = "O" -> "o" [] c = "N" -> "n" [] c = "Y" -> "y"
    [] OTHER -> c

LowerStr(s) == [i \in 1..Len(s) |-> Lower(s[i])]

BoolTrue == {<<"1">>, <<"t","r","u","e">>, <<"o","n">>, <<"y","e","s">>, <<"t">>, <<"y">>}
BoolFalse == {<<"0">>, <<"f","a","l","s","e">>, <<"o","f","f">>, <<"n","o">>, <<"f">>, <<"n">>}

\* str -> bool, case-insensitive; <<>> is a parse failure.
ParseBool(s) ==
  IF LowerStr(s) \in BoolTrue THEN <<TRUE>>
  ELSE IF LowerStr(s) \in BoolFalse THEN <<FALSE>>
  ELSE <<>>

(* ------------------------------- paths --------------------------------- *)

\* The segments of a raw path: "/a/b" is <<a, b>>, "/a/" is <<a, <<>>>> and
\* "/" is << <<>> >>.  A raw path starts with "/".
RECURSIVE SplitFrom(_, _, _)
SplitFrom(raw, i, cur) ==
  IF i > Len(raw) THEN <<cur>>
  ELSE IF raw[i] = "/" THEN <<cur>> \o SplitFrom(raw, i + 1, <<>>)
  ELSE SplitFrom(raw, i + 1, Append(cur, raw[i]))

Split(raw) == SplitFrom(raw, 2, <<>>)

\* Segments joined with "/" (no leading "/").
RECURSIVE Join(_)
Join(segs) ==
  IF Len(segs) = 0 THEN <<>>
  ELSE IF Len(segs) = 1 THEN segs[1]
  ELSE segs[1] \o <<"/">> \o Join(Tail(segs))

RawPath(segs) == <<"/">> \o Join(segs)

(* --------------------------- route templates --------------------------- *)

W_items == <<"i", "t", "e", "m", "s">>
W_users == <<"u", "s", "e", "r", "s">>
W_me == <<"m", "e">>
W_models == <<"m", "o", "d", "e", "l", "s">>
W_files == <<"f", "i", "l", "e", "s">>
W_index_weights == <<"i", "n", "d", "e", "x", "-", "w", "e", "i", "g", "h", "t", "s">>
W_images == <<"i", "m", "a", "g", "e", "s">>
W_multiple == <<"m", "u", "l", "t", "i", "p", "l", "e">>

\* A template is a sequence of segments: a literal, a one-segment parameter
\* {name}, or a rest-of-path parameter {name:path}.
Lit(s) == [kind |-> "lit", lit |-> s, name |-> ""]
Param(n) == [kind |-> "param", lit |-> <<>>, name |-> n]
PathParam(n) == [kind |-> "path", lit |-> <<>>, name |-> n]

T_index_weights == <<Lit(W_index_weights), Lit(<<>>)>>
T_images_multiple == <<Lit(W_images), Lit(W_multiple), Lit(<<>>)>>
T_items_id == <<Lit(W_items), Param("item_id")>>
T_items == <<Lit(W_items), Lit(<<>>)>>
T_users_items == <<Lit(W_users), Param("user_id"), Lit(W_items), Param("item_id")>>
T_files == <<Lit(W_files), PathParam("file_path")>>
T_models == <<Lit(W_models), Param("model_name")>>
T_users_me == <<Lit(W_users), Lit(W_me)>>
T_users_id == <<Lit(W_users), Param("user_id")>>
T_root == <<Lit(<<>>)>>

\* Does the template match the path segments?  A literal equals its segment,
\* {name} takes one non-empty segment, {name:path} takes all that is left.
RECURSIVE MatchSegs(_, _)
MatchSegs(tmpl, segs) ==
  IF Len(tmpl) = 0 THEN Len(segs) = 0
  ELSE IF tmpl[1].kind = "path" THEN Len(segs) >= 1
  ELSE /\ Len(segs) >= 1
       /\ IF tmpl[1].kind = "lit" THEN segs[1] = tmpl[1].lit ELSE Len(segs[1]) > 0
       /\ MatchSegs(Tail(tmpl), Tail(segs))

\* The raw token bound to each path parameter of a matching template.
RECURSIVE BindSegs(_, _)
BindSegs(tmpl, segs) ==
  IF Len(tmpl) = 0 THEN EmptyDict
  ELSE IF tmpl[1].kind = "path" THEN (tmpl[1].name :> Join(segs))
  ELSE IF tmpl[1].kind = "param"
    THEN (tmpl[1].name :> segs[1]) @@ BindSegs(Tail(tmpl), Tail(segs))
  ELSE BindSegs(Tail(tmpl), Tail(segs))

(* --------------------------- declared parameters ----------------------- *)

W_fixedquery == <<"f", "i", "x", "e", "d", "q", "u", "e", "r", "y">>
W_foo == <<"f", "o", "o">>
W_bar == <<"b", "a", "r">>

\* One declared parameter of a path operation.  src is "path", "query" or
\* "body"; default is used when the parameter is not required and no value
\* is supplied; a bound that is not declared is <<>>.  Float bounds are in
\* tenths.
PS(name, src, type, required, default) ==
  [name |-> name, src |-> src, type |-> type, required |-> required,
   default |-> default, alias |-> name, embed |-> FALSE, nullable |-> FALSE,
   ge |-> <<>>, gt |-> <<>>, le |-> <<>>, lt |-> <<>>,
   min_length |-> <<>>, max_length |-> <<>>, pattern |-> <<>>]

PathInt == PS("item_id", "path", "int", TRUE, Null)
PathStr == PS("item_id", "path", "str", TRUE, Null)
QOpt == PS("q", "query", "str", FALSE, Null)
QReq == PS("q", "query", "str", TRUE, Null)
BodyItem == PS("item", "body", "Item", TRUE, Null)
BodyUser == PS("user", "body", "User", TRUE, Null)
BodyImportance == PS("importance", "body", "int", TRUE, Null)

Route(line, method, tmpl, params) ==
  [line |-> line, method |-> method, tmpl |-> tmpl, params |-> params]

\* app.router.routes after the module has been imported: every decorator
\* appends one route, in source order.  line is the decorator's line.
Routes == <<
  Route(51, "POST", T_index_weights, <<PS("weights", "body", "dict", TRUE, Null)>>),
  Route(57, "POST", T_images_multiple, <<PS("images", "body", "listImage", TRUE, Null)>>),
  Route(63, "PUT", T_items_id, <<PathInt, [BodyItem EXCEPT !.embed = TRUE]>>),
  Route(70, "PUT", T_items_id,
        <<PathInt, QOpt, BodyItem, BodyUser, [BodyImportance EXCEPT !.gt = <<0>>]>>),
  Route(86, "PUT", T_items_id, <<PathInt, BodyItem, BodyUser, BodyImportance>>),
  Route(96, "PUT", T_items_id,
        <<[PathInt EXCEPT !.ge = <<0>>, !.le = <<1000>>], QOpt,
          PS("item", "body", "Item", FALSE, Null)>>),
  Route(111, "GET", T_items_id,
        <<[PathInt EXCEPT !.ge = <<0>>, !.le = <<1000>>], QReq,
          [PS("size", "query", "float", TRUE, Null) EXCEPT !.gt = <<0>>, !.lt = <<105>>]>>),
  Route(125, "GET", T_items_id, <<[PathInt EXCEPT !.gt = <<0>>, !.le = <<1000>>], QReq>>),
  Route(137, "GET", T_items_id, <<[PathInt EXCEPT !.ge = <<1>>], QReq>>),
  Route(148, "GET", T_items_id, <<PathInt, QReq>>),
  Route(157, "GET", T_items_id, <<PathInt, [QOpt EXCEPT !.alias = "item-query"]>>),
  Route(169, "GET", T_items, <<PS("hidden_query", "query", "str", FALSE, Null)>>),
  Route(180, "GET", T_items,
        <<[QOpt EXCEPT !.alias = "item-query", !.min_length = <<3>>,
                       !.max_length = <<50>>, !.pattern = <<W_fixedquery>>]>>),
  Route(204, "GET", T_items, <<[QOpt EXCEPT !.alias = "item-query"]>>),
  Route(213, "GET", T_items, <<[QOpt EXCEPT !.min_length = <<3>>]>>),
  Route(233, "GET", T_items,
        <<PS("q", "query", "liststr", FALSE, ListV(<<StrV(W_foo), StrV(W_bar)>>))>>),
  Route(242, "GET", T_items, <<PS("q", "query", "liststr", FALSE, Null)>>),
  Route(249, "GET", T_items, <<[QReq EXCEPT !.min_length = <<3>>]>>),
  Route(258, "GET", T_items, <<[QReq EXCEPT !.min_length = <<3>>]>>),
  Route(267, "GET", T_items, <<[QReq EXCEPT !.min_length = <<3>>]>>),
  Route(276, "GET", T_items,
        <<[PS("q", "query", "str", FALSE, StrV(W_fixedquery)) EXCEPT !.min_length = <<3>>]>>),
  Route(285, "GET", T_items,
        <<[QOpt EXCEPT !.min_length = <<3>>, !.max_length = <<50>>,
                       !.pattern = <<W_fixedquery>>]>>),
  Route(298, "GET", T_items, <<[QOpt EXCEPT !.min_length = <<3>>, !.max_length = <<50>>]>>),
  Route(309, "GET", T_items, <<[QOpt EXCEPT !.max_length = <<50>>]>>),
  Route(318, "GET", T_items, <<[QOpt EXCEPT !.max_length = <<50>>]>>),
  Route(327, "PUT", T_items_id, <<PathInt, QOpt, BodyItem>>),
  Route(336, "PUT", T_items_id, <<PathInt, BodyItem>>),
  Route(342, "POST", T_items, <<BodyItem>>),
  Route(352, "POST", T_items, <<BodyItem>>),
  Route(358, "GET", T_items_id,
        <<PathStr, PS("needy", "query", "str", TRUE, Null),
          PS("skip", "query", "int", FALSE, IntV(0)),
          PS("limit", "query", "int", FALSE, Null)>>),
  Route(370, "GET", T_items_id, <<PathStr, PS("needy", "query", "str", TRUE, Null)>>),
  Route(377, "GET", T_users_items,
        <<PS("user_id", "path", "int", TRUE, Null), PathStr, QOpt,
          PS("short", "query", "bool", FALSE, BoolV(FALSE))>>),
  Route(398, "GET", T_items_id,
        <<PathStr, QOpt, PS("short", "query", "bool", FALSE, BoolV(FALSE))>>),
  Route(411, "GET", T_items_id, <<PathStr, QOpt>>),
  Route(423, "GET", T_items,
        <<PS("skip", "query", "int", FALSE, IntV(0)),
          PS("limit", "query", "int", FALSE, IntV(10))>>),
  Route(429, "GET", T_files, <<PS("file_path", "path", "str", TRUE, Null)>>),
  Route(435, "GET", T_models, <<PS("model_name", "path", "ModelName", TRUE, Null)>>),
  Route(447, "GET", T_users_me, <<>>),
  Route(453, "GET", T_users_id, <<PS("user_id", "path", "str", TRUE, Null)>>),
  Route(459, "GET", T_items_id, <<PathInt>>),
  Route(465, "GET", T_items_id, <<PS("item_id", "path", "any", TRUE, Null)>>),
  Route(470, "GET", T_root, <<>>)
>>

(* ------------------------------ models --------------------------------- *)

\* class Image(BaseModel)
ImageFields == <<PS("url", "body", "HttpUrl", TRUE, Null), PS("name", "body", "str", TRUE, Null)>>

\* class Item(BaseModel)
ItemFields == <<
  PS("name", "body", "str", TRUE, Null),
  [PS("description", "body", "str", FALSE, Null) EXCEPT !.max_length = <<300>>, !.nullable = TRUE],
  [PS("price", "body", "float", TRUE, Null) EXCEPT !.gt = <<0>>],
  [PS("tax", "body", "float", FALSE, Null) EXCEPT !.nullable = TRUE],
  PS("tags", "body", "liststr", FALSE, <<"set", <<>>>>),
  [PS("images", "body", "listImage", FALSE, Null) EXCEPT !.nullable = TRUE] >>

\* class User(BaseModel)
UserFields == <<
  PS("username", "body", "str", TRUE, Null),
  [PS("full_name", "body", "str", FALSE, Null) EXCEPT !.nullable = TRUE] >>

\* class ModelName(str, Enum): the members' values.
ModelNameValues == {<<"a", "l", "e", "x", "n", "e", "t">>, <<"r", "e", "s", "n", "e", "t">>, <<"l", "e", "n", "e", "t">>}

(* ----------------------------- validation ------------------------------- *)

Err(loc, type) == [loc |-> loc, type |-> type]
Ok(v) == [errs |-> <<>>, val |-> v]
Fail(loc, type) == [errs |-> <<Err(loc, type)>>, val |-> Null]

\* NumError with the upper bound le never applied.
NumErrorNoLe(spec, n) ==
  IF spec.lt # <<>> /\ ~(n < spec.lt[1]) THEN "less_than"
  ELSE IF spec.ge # <<>> /\ ~(n >= spec.ge[1]) THEN "greater_than_equal"
  ELSE IF spec.gt # <<>> /\ ~(n > spec.gt[1]) THEN "greater_than"
  ELSE ""

\* The first numeric bound the number breaks, "" when it breaks none.
NumError(spec, n) ==
  IF spec.le # <<>> /\ ~(n <= spec.le[1]) THEN "less_than_equal"
  ELSE IF spec.lt # <<>> /\ ~(n < spec.lt[1]) THEN "less_than"
  ELSE IF spec.ge # <<>> /\ ~(n >= spec.ge[1]) THEN "greater_than_equal"
  ELSE IF spec.gt # <<>> /\ ~(n > spec.gt[1]) THEN "greater_than"
  ELSE ""

\* The first string constraint the string breaks, "" when it breaks none.
\* The only pattern of the source is ^fixedquery$.
StrError(spec, s) ==
  IF spec.min_length # <<>> /\ Len(s) < spec.min_length[1] THEN "string_too_short"
  ELSE IF spec.max_length # <<>> /\ Len(s) > spec.max_length[1] THEN "string_too_long"
  ELSE IF spec.pattern # <<>> /\ s # spec.pattern[1] THEN "string_pattern_mismatch"
  ELSE ""

Checked(spec, v, loc) ==
  LET e == IF Tag(v) \in {"int", "float"} THEN NumError(spec, Val(v))
           ELSE IF Tag(v) = "str" THEN StrError(spec, Val(v))
           ELSE ""
  IN IF e = "" THEN Ok(v) ELSE Fail(loc, e)

\* A raw path or query token decoded to the declared type, then checked
\* against the declared constraints.
DecodeRaw(spec, raw, loc) ==
  CASE spec.type = "int" ->
         IF ParseInt(raw) = <<>> THEN Fail(loc, "int_parsing")
         ELSE Checked(spec, IntV(ParseInt(raw)[1]), loc)
    [] spec.type = "float" ->
         IF ParseFloat(raw) = <<>> THEN Fail(loc, "float_parsing")
         ELSE Checked(spec, FloatV(ParseFloat(raw)[1]), loc)
    [] spec.type = "bool" ->
         IF ParseBool(raw) = <<>> THEN Fail(loc, "bool_parsing")
         ELSE Ok(BoolV(ParseBool(raw)[1]))
    [] spec.type = "ModelName" ->
         IF raw \in ModelNameValues THEN Ok(EnumV(raw)) ELSE Fail(loc, "enum")
    [] OTHER -> Checked(spec, StrV(raw), loc)

\* The values a query string (a sequence of <<name, value>> pairs) gives a
\* name, in the order supplied.
RECURSIVE QueryAll(_, _)
QueryAll(query, name) ==
  IF Len(query) = 0 THEN <<>>
  ELSE (IF query[1][1] = name THEN <<query[1][2]>> ELSE <<>>) \o QueryAll(Tail(query), name)

ValidatePath(spec, pathvals) ==
  DecodeRaw(spec, pathvals[spec.name], <<"path", spec.alias>>)

\* A scalar query parameter takes the last value supplied, a list parameter
\* all of them; with none supplied a required parameter is missing and any
\* other takes its default, unvalidated.
ValidateQuery(spec, query) ==
  LET vs == QueryAll(query, spec.alias)
      loc == <<"query", spec.alias>>
  IN IF Len(vs) = 0
       THEN IF spec.required THEN Fail(loc, "missing") ELSE Ok(spec.default)
     ELSE IF spec.type = "liststr"
       THEN Ok(ListV([i \in 1..Len(vs) |-> StrV(vs[i])]))
     ELSE DecodeRaw(spec, vs[Len(vs)], loc)

(* --------------------------- body validation ---------------------------- *)

W_http == <<"h", "t", "t", "p", ":", "/", "/">>
W_https == <<"h", "t", "t", "p", "s", ":", "/", "/">>

StartsWith(s, pre) == Len(s) >= Len(pre) /\ SubSeq(s, 1, Len(pre)) = pre

SchemeLen(s) ==
  IF StartsWith(s, W_http) THEN Len(W_http)
  ELSE IF StartsWith(s, W_https) THEN Len(W_https)
  ELSE 0

\* HttpUrl: scheme http or https and a non-empty host.
IsHttpUrl(s) ==
  /\ SchemeLen(s) > 0
  /\ Len(s) > SchemeLen(s)
  /\ s[SchemeLen(s) + 1] # "/"

\* An HttpUrl is kept normalised: an empty path becomes "/".
NormalizeUrl(s) ==
  IF \E i \in (SchemeLen(s) + 1)..Len(s) : s[i] = "/" THEN s ELSE Append(s, "/")

DigitChar(d) ==
  CASE d = 0 -> "0" [] d = 1 -> "1" [] d = 2 -> "2" [] d = 3 -> "3" [] d = 4 -> "4"
    [] d = 5 -> "5" [] d = 6 -> "6" [] d = 7 -> "7" [] d = 8 -> "8" [] d = 9 -> "9"

RECURSIVE FormatNat(_)
FormatNat(n) ==
  IF n < 10 THEN <<DigitChar(n)>> ELSE Append(FormatNat(n \div 10), DigitChar(n % 10))

\* str(n) of an int.
FormatInt(n) == IF n < 0 THEN <<"-">> \o FormatNat(-n) ELSE FormatNat(n)

FieldsOf(type) ==
  CASE type = "Item" -> ItemFields
    [] type = "User" -> UserFields
    [] type = "Image" -> ImageFields

RECURSIVE ValidateJson(_, _, _)
RECURSIVE ValidateFields(_, _, _, _)
RECURSIVE ValidateElems(_, _, _, _)

\* A JSON value validated as the declared type (lax mode: a numeric string
\* is accepted for a number).  loc is the error location.
ValidateJson(spec, v, loc) ==
  IF Tag(v) = "null" /\ spec.nullable THEN Ok(Null)
  ELSE CASE spec.type = "str" ->
         IF Tag(v) = "str" THEN Checked(spec, v, loc) ELSE Fail(loc, "string_type")
    [] spec.type = "float" ->
         IF Tag(v) = "float" THEN Checked(spec, v, loc)
         ELSE IF Tag(v) = "int" THEN Checked(spec, FloatV(Val(v) * 10), loc)
         ELSE IF Tag(v) = "str" /\ ParseFloat(Val(v)) # <<>>
           THEN Checked(spec, FloatV(ParseFloat(Val(v))[1]), loc)
         ELSE IF Tag(v) = "str" THEN Fail(loc, "float_parsing")
         ELSE Fail(loc, "float_type")
    [] spec.type = "int" ->
         IF Tag(v) = "int" THEN Checked(spec, v, loc)
         ELSE IF Tag(v) = "float" /\ Val(v) % 10 = 0
           THEN Checked(spec, IntV(Val(v) \div 10), loc)
         ELSE IF Tag(v) = "float" THEN Fail(loc, "int_from_float")
         ELSE IF Tag(v) = "str" /\ ParseInt(Val(v)) # <<>>
           THEN Checked(spec, IntV(ParseInt(Val(v))[1]), loc)
         ELSE IF Tag(v) = "str" THEN Fail(loc, "int_parsing")
         ELSE Fail(loc, "int_type")
    [] spec.type = "HttpUrl" ->
         IF Tag(v) # "str" THEN Fail(loc, "url_type")
         ELSE IF IsHttpUrl(Val(v)) THEN Ok(StrV(NormalizeUrl(Val(v))))
         ELSE Fail(loc, "url_parsing")
    [] spec.type = "liststr" ->
         IF Tag(v) = "list"
           THEN ValidateElems(PS("", "body", "str", TRUE, Null), Val(v), loc, 1)
           ELSE Fail(loc, "list_type")
    [] spec.type = "listImage" ->
         IF Tag(v) = "list"
           THEN ValidateElems(PS("", "body", "Image", TRUE, Null), Val(v), loc, 1)
           ELSE Fail(loc, "list_type")
    [] spec.type = "dict" ->
         IF Tag(v) = "obj"
           THEN IF DOMAIN Val(v) = {} THEN Ok(<<"dict", EmptyDict>>) ELSE Fail(loc, "dict_item")
         ELSE IF Tag(v) # "pairs" THEN Fail(loc, "dict_type")
         ELSE LET kvs == Val(v)
                  elem == PS("", "body", "float", TRUE, Null)
                  bad == {i \in 1..Len(kvs) :
                            \/ ParseInt(kvs[i][1]) = <<>>
                            \/ ValidateJson(elem, kvs[i][2], loc).errs # <<>>}
                  last(n) == CHOOSE i \in 1..Len(kvs) :
                               /\ ParseInt(kvs[i][1])[1] = n
                               /\ \A j \in (i + 1)..Len(kvs) : ParseInt(kvs[j][1])[1] # n
              IN IF bad # {} THEN Fail(loc, "dict_item")
                 ELSE Ok(<<"dict", [n \in {ParseInt(kvs[i][1])[1] : i \in 1..Len(kvs)} |->
                                      ValidateJson(elem, kvs[last(n)][2], loc).val]>>)
    [] OTHER ->
         IF Tag(v) = "obj"
           THEN LET r == ValidateFields(FieldsOf(spec.type), Val(v), loc, 1)
                IN [errs |-> r.errs, val |-> ObjV(r.val)]
           ELSE Fail(loc, "model_attributes_type")

\* The fields of a model, each validated; a field the input leaves out is
\* missing when required and takes its default otherwise; input keys that
\* are no field are ignored.
ValidateFields(fields, o, loc, i) ==
  IF i > Len(fields) THEN [errs |-> <<>>, val |-> EmptyDict]
  ELSE LET f == fields[i]
           r == IF Has(o, f.alias) THEN ValidateJson(f, o[f.alias], Append(loc, f.alias))
                ELSE IF f.required THEN Fail(Append(loc, f.alias), "missing")
                ELSE Ok(f.default)
           rest == ValidateFields(fields, o, loc, i + 1)
       IN [errs |-> r.errs \o rest.errs, val |-> (f.name :> r.val) @@ rest.val]

ValidateElems(elem, xs, loc, i) ==
  IF i > Len(xs) THEN Ok(ListV(<<>>))
  ELSE LET r == ValidateJson(elem, xs[i], Append(loc, ToString(i - 1)))
           rest == ValidateElems(elem, xs, loc, i + 1)
       IN [errs |-> r.errs \o rest.errs, val |-> ListV(<<r.val>> \o Val(rest.val))]

\* One body parameter.  body is <<>> when the request has none, else
\* <<json>>.  An embedded parameter is looked up under its name in the body
\* object; a parameter that is not embedded is the body itself.
ValidateBody(spec, body, embedded) ==
  IF embedded
    THEN LET loc == <<"body", spec.alias>>
         IN IF body = <<>> \/ Tag(body[1]) # "obj" \/ ~Has(Val(body[1]), spec.alias)
              THEN IF spec.required THEN Fail(loc, "missing") ELSE Ok(spec.default)
              ELSE ValidateJson(spec, Val(body[1])[spec.alias], loc)
    ELSE IF body = <<>>
      THEN IF spec.required THEN Fail(<<"body">>, "missing") ELSE Ok(spec.default)
      ELSE ValidateJson(spec, body[1], <<"body">>)

(* ------------------------- dependency resolution ------------------------ *)

BySrc(params, src) == SelectSeq(params, LAMBDA p : p.src = src)

\* More than one body parameter, or Body(embed=True).
Embedded(params) ==
  \/ Len(BySrc(params, "body")) > 1
  \/ Len(BySrc(params, "body")) = 1 /\ BySrc(params, "body")[1].embed

ValidateParam(spec, req, pathvals, embedded) ==
  CASE spec.src = "path" -> ValidatePath(spec, pathvals)
    [] spec.src = "query" -> ValidateQuery(spec, req.query)
    [] spec.src = "body" -> ValidateBody(spec, req.body, embedded)

\* ValidateParams stopping at the first parameter that fails.
RECURSIVE ValidateParamsFirstOnly(_, _, _, _, _)
ValidateParamsFirstOnly(params, i, req, pathvals, embedded) ==
  IF i > Len(params) THEN [errs |-> <<>>, val |-> EmptyDict]
  ELSE LET r == ValidateParam(params[i], req, pathvals, embedded)
       IN IF r.errs # <<>> THEN [errs |-> r.errs, val |-> EmptyDict]
          ELSE LET rest == ValidateParamsFirstOnly(params, i + 1, req, pathvals, embedded)
               IN [errs |-> rest.errs, val |-> (params[i].name :> r.val) @@ rest.val]

\* Every parameter of the sequence is validated and every error kept.
RECURSIVE ValidateParams(_, _, _, _, _)
ValidateParams(params, i, req, pathvals, embedded) ==
  IF i > Len(params) THEN [errs |-> <<>>, val |-> EmptyDict]
  ELSE LET r == ValidateParam(params[i], req, pathvals, embedded)
           rest == ValidateParams(params, i + 1, req, pathvals, embedded)
       IN [errs |-> r.errs \o rest.errs, val |-> (params[i].name :> r.val) @@ rest.val]

\* The handler's arguments, or the errors of all parameters: path, then
\* query, then body.
SolveDependencies(route, req, pathvals) ==
  LET ordered == BySrc(route.params, "path") \o BySrc(route.params, "query")
                   \o BySrc(route.params, "body")
  IN ValidateParams(ordered, 1, req, pathvals, Embedded(route.params))

(* ------------------------------ handlers -------------------------------- *)

W_Foo == <<"F", "o", "o">>
W_Bar == <<"B", "a", "r">>
W_Baz == <<"B", "a", "z">>
W_not_found == <<"N", "o", "t", " ", "f", "o", "u", "n", "d">>
W_current_user == <<"t", "h", "e", " ", "c", "u", "r", "r", "e", "n", "t", " ", "u", "s", "e", "r">>
W_hello == <<"H", "e", "l", "l", "o", " ", "W", "o", "r", "l", "d">>
W_alexnet == <<"a", "l", "e", "x", "n", "e", "t">>
W_lenet == <<"l", "e", "n", "e", "t">>
W_msg_alexnet == <<"D", "e", "e", "p", " ", "L", "e", "a", "r", "n", "i", "n", "g", " ", "F", "T", "W", "!">>
W_msg_lenet == <<"L", "e", "C", "N", "N", " ", "a", "l", "l", " ", "t", "h", "e", " ", "i", "m", "a", "g", "e", "s">>
W_msg_resnet == <<"H", "a", "v", "e", " ", "s", "o", "m", "e", " ", "r", "e", "s", "i", "d", "u", "a", "l", "s">>
W_description == <<"T", "h", "i", "s", " ", "i", "s", " ", "a", "n", " ", "a", "m", "a", "z", "i", "n", "g", " ", "i", "t", "e", "m", " ", "t", "h", "a", "t", " ", "h", "a", "s", " ", "a", " ", "l", "o", "n", "g", " ", "d", "e", "s", "c", "r", "i", "p", "t", "i", "o", "n">>

\* fake_items_db as the module defines it.
InitialDb == <<ObjV([item_name |-> StrV(W_Foo)]), ObjV([item_name |-> StrV(W_Bar)]),
               ObjV([item_name |-> StrV(W_Baz)])>>

\* s[a:b] of a Python list.
Clamp(i, n) == IF i < 0 THEN (IF i + n < 0 THEN 0 ELSE i + n) ELSE IF i > n THEN n ELSE i
Slice(s, a, b) == SubSeq(s, Clamp(a, Len(s)) + 1, Clamp(b, Len(s)))

\* results.update({k: v}) under `if v:`.
UpdateIf(d, k, v) == IF Truthy(v) THEN Update(d, k, v) ELSE d

ItemsResult == [items |-> ListV(<<ObjV([item_id |-> StrV(W_Foo)]), ObjV([item_id |-> StrV(W_Bar)])>>)]

\* results = {"item_id": item_id}; if q: results.update({"q": q})
ReadItems(a) == ObjV(UpdateIf([item_id |-> a.item_id], "q", a.q))

\* results = {"items": [...]}; if q: results.update({"q": q})
ReadItemsList(a) == ObjV(UpdateIf(ItemsResult, "q", a.q))

\* if not short: item.update({"description": ...})
WithDescription(d, short) ==
  IF ~Truthy(short) THEN Update(d, "description", StrV(W_description)) ELSE d

\* CreateItem dumping the item without its None fields.
CreateItemExcludeNone(a) ==
  LET full == Val(a.item)
      item_dict == [k \in {f \in DOMAIN full : full[f] # Null} |-> full[k]]
  IN ObjV(IF Has(item_dict, "tax") /\ Truthy(item_dict.tax)
            THEN Update(item_dict, "price_with_tax",
                        FloatV(Val(item_dict.price) + Val(item_dict.tax)))
            ELSE item_dict)

\* create_item (line 343): item.model_dump(), and price_with_tax when
\* item.tax is truthy.  Sums are sums of tenths, so they are exact here
\* where the code's are IEEE-754 sums.
CreateItem(a) ==
  LET item_dict == Val(a.item)
  IN ObjV(IF Truthy(item_dict.tax)
            THEN Update(item_dict, "price_with_tax",
                        FloatV(Val(item_dict.price) + Val(item_dict.tax)))
            ELSE item_dict)

\* GetModel with the second test on the wrong member.
GetModelWrongMember(a) ==
  IF a.model_name = EnumV(W_alexnet)
    THEN ObjV([model_name |-> a.model_name, message |-> StrV(W_msg_alexnet)])
  ELSE IF Val(a.model_name) # W_lenet
    THEN ObjV([model_name |-> a.model_name, message |-> StrV(W_msg_lenet)])
  ELSE ObjV([model_name |-> a.model_name, message |-> StrV(W_msg_resnet)])

\* get_model
GetModel(a) ==
  IF a.model_name = EnumV(W_alexnet)
    THEN ObjV([model_name |-> a.model_name, message |-> StrV(W_msg_alexnet)])
  ELSE IF Val(a.model_name) = W_lenet
    THEN ObjV([model_name |-> a.model_name, message |-> StrV(W_msg_lenet)])
  ELSE ObjV([model_name |-> a.model_name, message |-> StrV(W_msg_resnet)])

\* The value the path operation function registered at `line` returns for
\* the arguments a, reading the list db.
Handler(line, a, db) ==
  CASE line = 51 -> a.weights
    [] line = 57 -> a.images
    [] line = 63 -> ObjV([item_id |-> a.item_id, item |-> a.item])
    [] line = 70 -> ObjV(UpdateIf([item_id |-> a.item_id, item |-> a.item, user |-> a.user,
                                   importance |-> a.importance], "q", a.q))
    [] line = 86 -> ObjV([item_id |-> a.item_id, item |-> a.item, user |-> a.user,
                          importance |-> a.importance])
    [] line = 96 -> ObjV(UpdateIf(UpdateIf([item_id |-> a.item_id], "q", a.q), "item", a.item))
    [] line \in {111, 125, 137, 148, 157} -> ReadItems(a)
    [] line = 169 ->
         IF Truthy(a.hidden_query) THEN ObjV([hidden_query |-> a.hidden_query])
         ELSE ObjV([hidden_query |-> StrV(W_not_found)])
    [] line \in {180, 204, 213, 249, 258, 267, 276, 285, 298, 309, 318} -> ReadItemsList(a)
    [] line \in {233, 242} -> ObjV([q |-> a.q])
    [] line = 327 -> ObjV(UpdateIf(Val(a.item) @@ [item_id |-> a.item_id], "q", a.q))
    [] line = 336 -> ObjV(Val(a.item) @@ [item_id |-> a.item_id])
    [] line = 342 -> CreateItem(a)
    [] line = 352 -> a.item
    [] line = 358 -> ObjV([item_id |-> a.item_id, needy |-> a.needy, skip |-> a.skip,
                           limit |-> a.limit])
    [] line = 370 -> ObjV([item_id |-> a.item_id, needy |-> a.needy])
    [] line = 377 -> ObjV(WithDescription(
                            UpdateIf([item_id |-> a.item_id, owner_id |-> a.user_id], "q", a.q),
                            a.short))
    [] line = 398 -> ObjV(WithDescription(UpdateIf([item_id |-> a.item_id], "q", a.q), a.short))
    [] line = 411 ->
         IF Truthy(a.q) THEN ObjV([item_id |-> a.item_id, q |-> a.q])
         ELSE ObjV([item_id |-> a.item_id])
    [] line = 423 -> ListV(Slice(db, Val(a.skip), Val(a.skip) + Val(a.limit)))
    [] line = 429 -> ObjV([file_path |-> a.file_path])
    [] line = 435 -> GetModel(a)
    [] line = 447 -> ObjV([user_id |-> StrV(W_current_user)])
    [] line = 453 -> ObjV([user_id |-> a.user_id])
    [] line \in {459, 465} -> ObjV([item_id |-> a.item_id])
    [] line = 470 -> ObjV([message |-> StrV(W_hello)])

\* The returned value as the JSON of the response: an enum member becomes
\* its value, a set a list, int keys of a dict their decimal strings.
RECURSIVE Serialize(_)
Serialize(v) ==
  CASE Tag(v) = "enum" -> StrV(Val(v))
    [] Tag(v) = "set" -> ListV(Val(v))
    [] Tag(v) = "dict" ->
         ObjV([k \in {FormatInt(n) : n \in DOMAIN Val(v)} |->
                 Val(v)[CHOOSE n \in DOMAIN Val(v) : FormatInt(n) = k]])
    [] Tag(v) = "list" -> ListV([i \in 1..Len(Val(v)) |-> Serialize(Val(v)[i])])
    [] Tag(v) = "obj" -> ObjV([k \in DOMAIN Val(v) |-> Serialize(Val(v)[k])])
    [] OTHER -> v

(* ------------------------------- router --------------------------------- *)

\* RouteMatches with the method never compared.
RouteMatchesAnyMethod(route, method, path) ==
  IF ~MatchSegs(route.tmpl, Split(path)) THEN "none" ELSE "full"

\* Route.matches: "none" when the path does not match the template,
\* "partial" when only the method differs, "full" otherwise.
RouteMatches(route, method, path) ==
  IF ~MatchSegs(route.tmpl, Split(path)) THEN "none"
  ELSE IF route.method # method THEN "partial"
  ELSE "full"

\* FirstMatch going on after a match, so that the last match is kept.
RECURSIVE FirstMatchKeepsLast(_, _, _, _)
FirstMatchKeepsLast(i, method, path, kind) ==
  IF i > Len(Routes) THEN 0
  ELSE LET later == FirstMatchKeepsLast(i + 1, method, path, kind)
       IN IF later # 0 THEN later
          ELSE IF RouteMatches(Routes[i], method, path) = kind THEN i
          ELSE 0

\* The router's loop over the routes in registration order: the index of the
\* first route from i on whose match is `kind`, 0 when there is none.
RECURSIVE FirstMatch(_, _, _, _)
FirstMatch(i, method, path, kind) ==
  IF i > Len(Routes) THEN 0
  ELSE IF RouteMatches(Routes[i], method, path) = kind THEN i
  ELSE FirstMatch(i + 1, method, path, kind)

\* MatchRoute taking the last full match.
MatchRouteLast(method, path) ==
  LET full == {i \in 1..Len(Routes) : RouteMatches(Routes[i], method, path) = "full"}
  IN IF full = {} THEN 0 ELSE CHOOSE i \in full : \A j \in full : j <= i

\* The route that handles the request: the first full match.
MatchRoute(method, path) == FirstMatch(1, method, path, "full")

\* redirect_slashes: the path with its trailing slash removed or added.
SlashToggled(path) ==
  IF path[Len(path)] = "/" THEN SubSeq(path, 1, Len(path) - 1) ELSE Append(path, "/")

NeedsRedirect(method, path) ==
  /\ path # <<"/">>
  /\ \E i \in 1..Len(Routes) : RouteMatches(Routes[i], method, SlashToggled(path)) # "none"

NoResp == [status |-> 0, route |-> 0, line |-> 0, errors |-> <<>>, body |-> Null]

\* What the validation layer finds for the request on route r.
Solved(r, req) == SolveDependencies(Routes[r], req, BindSegs(Routes[r].tmpl, Split(req.path)))

\* DbAfter for a handler that records what it served in the list.
DbAfterAppend(line, a, db) ==
  IF Len(db) < 4 THEN Append(db, ObjV([item_name |-> StrV(W_Foo)])) ELSE db

\* The module-level list after the handler registered at `line` has run:
\* no handler assigns to it or mutates it.
DbAfter(line, a, db) == db

(* ------------------------------ requests -------------------------------- *)

Req(method, segs, query, body) ==
  [method |-> method, path |-> RawPath(segs), query |-> query, body |-> body]

NoReq == [method |-> "", path |-> <<>>, query |-> <<>>, body |-> <<>>]

W_x == <<"x">>
W_y == <<"y">>

QP(name, value) == <<name, value>>

\* Sequences of at most n values over {x, y} for the query parameter q.
RECURSIVE QLists(_)
QLists(n) ==
  IF n = 0 THEN {<<>>}
  ELSE LET shorter == QLists(n - 1)
       IN shorter \cup {Append(l, QP("q", v)) : l \in shorter, v \in {W_x, W_y}}

ItemIdTokens == {<<"-", "1">>, <<"0">>, <<"5">>, <<"1", "0", "0", "0">>, <<"1", "0", "0", "1">>, W_x}

ItemQueries == {
  <<>>,
  <<QP("q", W_x)>>,
  <<QP("size", <<"5">>)>>,
  <<QP("q", W_x), QP("size", <<"5">>)>>,
  <<QP("q", W_x), QP("size", <<"1", "0", ".", "5">>)>>,
  <<QP("q", W_x), QP("size", <<"a", "b", "c">>)>>,
  <<QP("q", W_x), QP("q", W_y), QP("size", <<"1", "0", ".", "4">>)>> }

ListQueries ==
  QLists(MaxQValues) \cup {<<QP("hidden_query", W_x)>>, <<QP("item-query", W_fixedquery)>>}

JItem(name, price) == ObjV([name |-> name, price |-> price])
JItemTax(name, price, tax) == ObjV([name |-> name, price |-> price, tax |-> tax])

ItemBodies == {
  <<>>,
  <<JItem(StrV(W_Foo), FloatV(105))>>,
  <<JItem(StrV(W_Foo), IntV(10))>>,
  <<JItem(StrV(W_Foo), StrV(<<"1", "0", ".", "5">>))>>,
  <<JItem(StrV(W_Foo), FloatV(0))>>,
  <<JItem(IntV(7), FloatV(-5))>>,
  <<ObjV([name |-> StrV(W_Foo)])>>,
  <<JItemTax(StrV(W_Foo), FloatV(105), FloatV(15))>>,
  <<JItemTax(StrV(W_Foo), FloatV(105), FloatV(0))>>,
  <<JItemTax(StrV(W_Foo), FloatV(105), IntV(0))>>,
  <<JItemTax(StrV(W_Foo), FloatV(105), FloatV(-15))>>,
  <<JItemTax(StrV(W_Foo), FloatV(105), Null)>>,
  <<ObjV([name |-> StrV(W_Bar), price |-> FloatV(20), tax |-> FloatV(1),
          description |-> StrV(W_x), tags |-> ListV(<<StrV(W_x), StrV(W_y)>>),
          images |-> ListV(<<ObjV([url |-> StrV(<<"h", "t", "t", "p", ":", "/", "/", "a">>), name |-> StrV(W_x)])>>),
          extra |-> IntV(1)])>> }

JUser == ObjV([username |-> StrV(W_x)])

PutBodies == {
  <<>>,
  <<JItem(StrV(W_Foo), FloatV(105))>>,
  <<ObjV([item |-> JItem(StrV(W_Foo), FloatV(105))])>>,
  <<ObjV([item |-> JItem(StrV(W_Foo), FloatV(0))])>>,
  <<ObjV([item |-> JItem(StrV(W_Foo), FloatV(105)), user |-> JUser, importance |-> IntV(0)])>> }

WeightBodies == {
  <<>>,
  <<ObjV(EmptyDict)>>,
  <<PairsV(<< <<<<"1">>, FloatV(5)>>, <<<<"-", "2">>, IntV(3)>>, <<<<"0", "1">>, FloatV(7)>> >>)>>,
  <<PairsV(<< <<W_x, FloatV(5)>> >>)>>,
  <<StrV(W_x)>> }

ImageBodies == {
  <<>>,
  <<ListV(<<>>)>>,
  <<ListV(<<ObjV([url |-> StrV(<<"h", "t", "t", "p", "s", ":", "/", "/", "a", "/", "b">>), name |-> StrV(W_x)]),
            ObjV([url |-> StrV(<<"f", "t", "p", ":", "/", "/", "a">>)])>>)>> }

\* The requests a client may send.
Requests ==
  {Req("GET", <<W_items, t>>, q, <<>>) : t \in ItemIdTokens, q \in ItemQueries}
  \cup {Req("GET", <<W_items, <<>>>>, q, <<>>) : q \in ListQueries}
  \cup {Req("GET", p, <<>>, <<>>) : p \in {
          <<W_items>>, <<W_users, W_me>>, <<W_users, W_me, <<>>>>, <<W_users, W_x>>,
          <<W_users, <<"5">>, W_items, W_x>>, <<W_users, W_x, W_items, W_x>>,
          <<W_models, W_alexnet>>, <<W_models, <<"r", "e", "s", "n", "e", "t">>>>, <<W_models, W_lenet>>,
          <<W_models, <<"A", "l", "e", "x", "n", "e", "t">>>>, <<W_models, W_x>>,
          <<W_files, W_x, W_y>>, <<W_files, <<>>>>, <<W_files>>,
          << <<>> >>, <<W_x>>}}
  \cup {Req("GET", <<W_users, <<"5">>, W_items, W_x>>, <<QP("short", v)>>, <<>>) :
          v \in {<<"Y", "e", "s">>, <<"m", "a", "y", "b", "e">>}}
  \cup {Req(m, <<W_users, W_me>>, <<>>, <<>>) : m \in {"POST", "DELETE"}}
  \cup {Req("POST", <<W_items, <<>>>>, <<>>, b) : b \in ItemBodies}
  \cup {Req("PUT", <<W_items, t>>, <<>>, b) : t \in {<<"5">>, W_x}, b \in PutBodies}
  \cup {Req("POST", <<W_index_weights, <<>>>>, <<>>, b) : b \in WeightBodies}
  \cup {Req("POST", <<W_images, W_multiple, <<>>>>, <<>>, b) : b \in ImageBodies}

(* ---------------------------- state machine ----------------------------- *)

\* What the router and the validation layer make of a request: the route
\* that handles it (0 for none), whether a route matches all but the method,
\* whether the slash redirect applies, and the outcome of validation.
Resolve(req) ==
  LET r == MatchRoute(req.method, req.path)
  IN [route |-> r,
      partial |-> FirstMatch(1, req.method, req.path, "partial") # 0,
      redirect |-> NeedsRedirect(req.method, req.path),
      solved |-> IF r # 0 THEN Solved(r, req) ELSE Ok(EmptyDict)]

\* Resolve, tabulated over the requests of the model.
Resolved == [req \in Requests |-> Resolve(req)]

Clients == {"c1", "c2"}

Init ==
  /\ clients = [c \in Clients |-> [st |-> "idle", req |-> NoReq, resp |-> NoResp]]
  /\ fake_items_db = InitialDb

\* A request arrives on a connection.
Receive(c, req) ==
  /\ clients[c].st = "idle"
  /\ clients' = [clients EXCEPT ![c] = [st |-> "pending", req |-> req, resp |-> NoResp]]
  /\ UNCHANGED fake_items_db

Respond(c, resp) ==
  clients' = [clients EXCEPT ![c] = [st |-> "done", req |-> clients[c].req, resp |-> resp]]

\* A full match whose parameters all validate: the handler runs and its
\* result is the response.
CallHandler(c) ==
  /\ clients[c].st = "pending"
  /\ LET res == Resolved[clients[c].req]
         line == Routes[res.route].line
     IN /\ res.route # 0
        /\ res.solved.errs = <<>>
        /\ Respond(c, [status |-> 200, route |-> res.route, line |-> line, errors |-> <<>>,
                       body |-> Serialize(Handler(line, res.solved.val, fake_items_db))])
        /\ fake_items_db' = DbAfter(line, res.solved.val, fake_items_db)

\* A full match with a parameter that fails: 422 with the errors, and the
\* handler does not run.
ValidationError(c) ==
  /\ clients[c].st = "pending"
  /\ LET res == Resolved[clients[c].req]
     IN /\ res.route # 0
        /\ res.solved.errs # <<>>
        /\ Respond(c, [status |-> 422, route |-> res.route, line |-> 0,
                       errors |-> res.solved.errs, body |-> Null])
  /\ UNCHANGED fake_items_db

\* No full match but a route whose path matches: 405.
MethodNotAllowed(c) ==
  /\ clients[c].st = "pending"
  /\ LET res == Resolved[clients[c].req]
     IN /\ res.route = 0
        /\ res.partial
        /\ Respond(c, [status |-> 405, route |-> 0, line |-> 0, errors |-> <<>>, body |-> Null])
  /\ UNCHANGED fake_items_db

\* No match, but one with the trailing slash toggled: 307 to that path.
RedirectSlashes(c) ==
  /\ clients[c].st = "pending"
  /\ LET res == Resolved[clients[c].req]
     IN /\ res.route = 0
        /\ ~res.partial
        /\ res.redirect
        /\ Respond(c, [status |-> 307, route |-> 0, line |-> 0, errors |-> <<>>,
                       body |-> StrV(SlashToggled(clients[c].req.path))])
  /\ UNCHANGED fake_items_db

\* No match at all: 404.
NotFound(c) ==
  /\ clients[c].st = "pending"
  /\ LET res == Resolved[clients[c].req]
     IN /\ res.route = 0
        /\ ~res.partial
        /\ ~res.redirect
        /\ Respond(c, [status |-> 404, route |-> 0, line |-> 0, errors |-> <<>>, body |-> Null])
  /\ UNCHANGED fake_items_db

\* The client has read the response; the connection takes the next request.
Deliver(c) ==
  /\ clients[c].st = "done"
  /\ clients' = [clients EXCEPT ![c] = [st |-> "idle", req |-> NoReq, resp |-> NoResp]]
  /\ UNCHANGED fake_items_db

Next ==
  \E c \in Clients :
    \/ \E req \in Requests : Receive(c, req)
    \/ CallHandler(c)
    \/ ValidationError(c)
    \/ MethodNotAllowed(c)
    \/ RedirectSlashes(c)
    \/ NotFound(c)
    \/ Deliver(c)

Spec == Init /\ [][Next]_vars

(* ------------------------------ properties ------------------------------ *)

Done(c) == clients[c].st = "done"
ReqOf(c) == clients[c].req
RespOf(c) == clients[c].resp

P_users_me == RawPath(<<W_users, W_me>>)
P_items == RawPath(<<W_items, <<>>>>)

\* The routes whose method and template both fit the request, by index.
Candidates(req) ==
  {j \in 1..Len(Routes) :
     Routes[j].method = req.method /\ MatchSegs(Routes[j].tmpl, Split(req.path))}

CandidatesOf == [req \in Requests |-> Candidates(req)]

\* The routes whose template fits the path, whatever their method.
TemplatesOf == [req \in Requests |->
  {j \in 1..Len(Routes) : MatchSegs(Routes[j].tmpl, Split(req.path))}]

\* The token of a request whose path is /<word>/<token>, <<>> for other paths.
TokenAfter(req, word) ==
  LET segs == Split(req.path)
  IN IF Len(segs) = 2 /\ segs[1] = word /\ Len(segs[2]) > 0 THEN <<segs[2]>> ELSE <<>>

ItemIdOf == [req \in Requests |-> TokenAfter(req, W_items)]
ModelTokenOf == [req \in Requests |-> TokenAfter(req, W_models)]

ErrorLocs(errs) == {errs[i].loc : i \in 1..Len(errs)}

\* C1: every GET /users/me is answered by read_user_me (line 447) with
\* user_id "the current user", never by read_user (line 453) with "me".
C1_UsersMeLiteral ==
  \A c \in Clients :
    (Done(c) /\ ReqOf(c).method = "GET" /\ ReqOf(c).path = P_users_me) =>
      /\ RespOf(c).status = 200
      /\ RespOf(c).line = 447
      /\ RespOf(c).line # 453
      /\ RespOf(c).body = ObjV([user_id |-> StrV(W_current_user)])

C1_Witness ==
  \E c \in Clients :
    /\ Done(c) /\ ReqOf(c).method = "GET" /\ ReqOf(c).path = P_users_me
    /\ RespOf(c).line = 447

\* C2: the route a request is dispatched to is the first route, in
\* registration order, whose method and template match; when no route
\* matches none is selected and no handler runs (404 when no template fits
\* the path and the slash redirect does not apply); equal requests select
\* equal routes.
C2_FirstStructuralMatch ==
  /\ \A c \in Clients :
       Done(c) =>
         LET cand == CandidatesOf[ReqOf(c)]
             r == RespOf(c).route
         IN /\ cand = {} => (r = 0 /\ RespOf(c).line = 0 /\ RespOf(c).status \in {404, 405, 307})
            /\ cand # {} => (r \in cand /\ \A j \in cand : r <= j)
            /\ (TemplatesOf[ReqOf(c)] = {} /\ RespOf(c).status # 307) => RespOf(c).status = 404
  /\ \A c, d \in Clients :
       (Done(c) /\ Done(d) /\ ReqOf(c) = ReqOf(d)) => RespOf(c).route = RespOf(d).route

C2_Witness ==
  \E c, d \in Clients :
    /\ Done(c) /\ Cardinality(CandidatesOf[ReqOf(c)]) > 1 /\ RespOf(c).route # 0
    /\ Done(d) /\ TemplatesOf[ReqOf(d)] = {} /\ RespOf(d).status = 404

\* The routes registered with the method and the very template of route r.
SameTemplate(r) ==
  {j \in 1..Len(Routes) : Routes[j].method = Routes[r].method /\ Routes[j].tmpl = Routes[r].tmpl}

\* C3 as stated: the handler that runs for a request matching a template
\* registered several times is the last one registered for it.
C3_LastRegistrationWins ==
  \A c \in Clients :
    (Done(c) /\ RespOf(c).status = 200) =>
      \A j \in SameTemplate(RespOf(c).route) : j <= RespOf(c).route

\* C3 amended: a request that matches a template registered several times
\* is dispatched to the first handler registered for it, never to a later
\* one: GET /items/{item_id} to line 111, GET /items/ to line 169,
\* PUT /items/{item_id} to line 63, POST /items/ to line 342.
C3_FirstRegistrationWins ==
  \A c \in Clients :
    (Done(c) /\ RespOf(c).route # 0) =>
      LET r == RespOf(c).route
      IN /\ \A j \in SameTemplate(r) : r <= j
         /\ Routes[r].tmpl = T_items_id => Routes[r].line = IF Routes[r].method = "GET" THEN 111 ELSE 63
         /\ Routes[r].tmpl = T_items => Routes[r].line = IF Routes[r].method = "GET" THEN 169 ELSE 342

C3_Witness ==
  \E c, d \in Clients :
    /\ Done(c) /\ RespOf(c).status = 200 /\ RespOf(c).line = 111
    /\ Cardinality(SameTemplate(RespOf(c).route)) > 1
    /\ Done(d) /\ RespOf(d).status = 200 /\ RespOf(d).line = 342

OutOfRange(tok) == ParseInt(tok) # <<>> /\ (ParseInt(tok)[1] < 0 \/ ParseInt(tok)[1] > 1000)

\* C4: a GET /items/{item_id} whose item_id is an integer below 0 or above
\* 1000 is answered, whatever its query, by a validation error that names
\* a bound of the path parameter item_id, and no handler runs.
C4_ItemIdOutOfRange ==
  \A c \in Clients :
    (/\ Done(c) /\ ReqOf(c).method = "GET"
     /\ ItemIdOf[ReqOf(c)] # <<>> /\ OutOfRange(ItemIdOf[ReqOf(c)][1])) =>
      /\ RespOf(c).status = 422
      /\ RespOf(c).line = 0
      /\ \E i \in 1..Len(RespOf(c).errors) :
           /\ RespOf(c).errors[i].loc = <<"path", "item_id">>
           /\ RespOf(c).errors[i].type \in {"greater_than_equal", "less_than_equal"}

C4_Witness ==
  \E c, d \in Clients :
    /\ Done(c) /\ ReqOf(c).method = "GET" /\ ItemIdOf[ReqOf(c)] # <<>>
    /\ ParseInt(ItemIdOf[ReqOf(c)][1]) = <<1001>> /\ Len(ReqOf(c).query) = 2
    /\ RespOf(c).status = 422
    /\ Done(d) /\ ReqOf(d).method = "GET" /\ ItemIdOf[ReqOf(d)] # <<>>
    /\ ParseInt(ItemIdOf[ReqOf(d)][1]) = <<-1>> /\ RespOf(d).status = 422

\* The errors of each declared parameter of the request's route, taken one
\* parameter at a time.
ParamErrors(req) ==
  LET r == MatchRoute(req.method, req.path)
      params == Routes[r].params
  IN IF r = 0 THEN {}
     ELSE UNION {ErrorLocs(ValidateParam(params[i], req,
                                         BindSegs(Routes[r].tmpl, Split(req.path)),
                                         Embedded(params)).errs) : i \in 1..Len(params)}

ParamErrorsOf == [req \in Requests |-> ParamErrors(req)]

\* C5: when a parameter of the matched route fails, the handler is not
\* called and the one 422 response lists the failures of all parameters,
\* path, query and body; GET /items/{item_id} with item_id out of range and
\* no query lists item_id, q and size.
C5_AllErrorsReported ==
  \A c \in Clients :
    (Done(c) /\ RespOf(c).route # 0) =>
      /\ ParamErrorsOf[ReqOf(c)] # {} =>
           /\ RespOf(c).status = 422
           /\ RespOf(c).line = 0
           /\ ErrorLocs(RespOf(c).errors) = ParamErrorsOf[ReqOf(c)]
      /\ ParamErrorsOf[ReqOf(c)] = {} => RespOf(c).status = 200
      /\ (/\ ReqOf(c).method = "GET" /\ ItemIdOf[ReqOf(c)] # <<>>
          /\ OutOfRange(ItemIdOf[ReqOf(c)][1]) /\ ReqOf(c).query = <<>>) =>
           ErrorLocs(RespOf(c).errors) =
             {<<"path", "item_id">>, <<"query", "q">>, <<"query", "size">>}

C5_Witness ==
  \E c, d \in Clients :
    /\ Done(c) /\ ReqOf(c).method = "GET" /\ ItemIdOf[ReqOf(c)] # <<>>
    /\ OutOfRange(ItemIdOf[ReqOf(c)][1]) /\ ReqOf(c).query = <<>>
    /\ Len(RespOf(c).errors) = 3
    /\ Done(d) /\ ReqOf(d).method = "PUT"
    /\ ErrorLocs(RespOf(d).errors) = {<<"path", "item_id">>, <<"body", "item", "price">>}

MessageOf(x) ==
  CASE x = W_alexnet -> W_msg_alexnet
    [] x = W_lenet -> W_msg_lenet
    [] OTHER -> W_msg_resnet

\* C6: GET /models/{x} with x one of alexnet, resnet, lenet runs get_model
\* and returns model_name x with the message of that member; with any other
\* token it fails with an enum error and get_model does not run.
C6_ModelMessages ==
  \A c \in Clients :
    (Done(c) /\ ReqOf(c).method = "GET" /\ ModelTokenOf[ReqOf(c)] # <<>>) =>
      LET x == ModelTokenOf[ReqOf(c)][1]
      IN IF x \in ModelNameValues
           THEN /\ RespOf(c).status = 200
                /\ RespOf(c).line = 435
                /\ RespOf(c).body = ObjV([model_name |-> StrV(x), message |-> StrV(MessageOf(x))])
           ELSE /\ RespOf(c).status = 422
                /\ RespOf(c).line = 0
                /\ ErrorLocs(RespOf(c).errors) = {<<"path", "model_name">>}
                /\ RespOf(c).errors[1].type = "enum"

C6_Witness ==
  \E c, d \in Clients :
    /\ Done(c) /\ ModelTokenOf[ReqOf(c)] = <<W_lenet>> /\ RespOf(c).status = 200
    /\ Done(d) /\ ModelTokenOf[ReqOf(d)] # <<>> /\ RespOf(d).status = 422

\* A POST /items/ that was answered 200: its body is a valid Item.
CreatedItem(c) ==
  /\ Done(c) /\ ReqOf(c).method = "POST" /\ ReqOf(c).path = P_items
  /\ RespOf(c).status = 200

Submitted(c) == Val(ReqOf(c).body[1])
Returned(c) == Val(RespOf(c).body)

\* The float, in tenths, that a submitted JSON number or numeric string is.
Tenths(v) ==
  CASE Tag(v) = "float" -> Val(v)
    [] Tag(v) = "int" -> Val(v) * 10
    [] Tag(v) = "str" -> ParseFloat(Val(v))[1]

\* C7 as stated: with tax absent the response of create-item has the
\* submitted name and price and neither a tax nor a price_with_tax field.
C7_NoTaxField ==
  \A c \in Clients :
    (CreatedItem(c) /\ ~Has(Submitted(c), "tax")) =>
      /\ Returned(c).name = Submitted(c).name
      /\ Returned(c).price = FloatV(Tenths(Submitted(c).price))
      /\ ~Has(Returned(c), "tax")
      /\ ~Has(Returned(c), "price_with_tax")

\* C7 amended: with tax absent the response of create-item has the
\* submitted name, the submitted price as a float, a tax field whose value
\* is null, and no price_with_tax field.
C7_TaxNull ==
  \A c \in Clients :
    (CreatedItem(c) /\ ~Has(Submitted(c), "tax")) =>
      /\ Returned(c).name = Submitted(c).name
      /\ Returned(c).price = FloatV(Tenths(Submitted(c).price))
      /\ Has(Returned(c), "tax") /\ Returned(c).tax = Null
      /\ ~Has(Returned(c), "price_with_tax")

C7_Witness ==
  \E c \in Clients :
    /\ CreatedItem(c) /\ ~Has(Submitted(c), "tax")
    /\ Returned(c).name = StrV(W_Foo) /\ Returned(c).price = FloatV(105)

\* C8: with a tax value present the response of create-item has a
\* price_with_tax field equal to price + tax.
C8_PriceWithTax ==
  \A c \in Clients :
    (CreatedItem(c) /\ Has(Submitted(c), "tax") /\ Submitted(c).tax # Null) =>
      /\ Has(Returned(c), "price_with_tax")
      /\ Returned(c).price_with_tax =
           FloatV(Tenths(Submitted(c).price) + Tenths(Submitted(c).tax))

QValuesOf == [req \in Requests |-> QueryAll(req.query, "q")]

\* C9: GET /items/ answers q = ["foo", "bar"] when the request has no q, and
\* the supplied values of q, in order, when it has some.
C9_ListDefault ==
  \A c \in Clients :
    (Done(c) /\ ReqOf(c).method = "GET" /\ ReqOf(c).path = P_items) =>
      /\ RespOf(c).status = 200
      /\ Has(Returned(c), "q")
      /\ Returned(c).q =
           IF QValuesOf[ReqOf(c)] = <<>> THEN ListV(<<StrV(W_foo), StrV(W_bar)>>)
           ELSE ListV([i \in 1..Len(QValuesOf[ReqOf(c)]) |-> StrV(QValuesOf[ReqOf(c)][i])])

\* C10: whatever requests were served, in whatever interleaving, the list
\* fake_items_db holds its three initial entries, and requests that are
\* equal are answered alike.
C10_DbUnchanged ==
  /\ fake_items_db = InitialDb
  /\ \A c, d \in Clients :
       (Done(c) /\ Done(d) /\ ReqOf(c) = ReqOf(d)) => RespOf(c) = RespOf(d)

C10_Witness ==
  \E c, d \in Clients :
    /\ c # d
    /\ Done(c) /\ RespOf(c).status = 200 /\ RespOf(c).line = 169
    /\ Done(d) /\ RespOf(d).status = 422
    /\ fake_items_db = InitialDb

====
